---- MODULE Spec2Model ----
(***************************************************************************)
(* Model of scripts/server_tools.py: the logging bootstrap                 *)
(* (_log_default_handler), the argument resolution and the identification  *)
(* dispatch of main().  One run of main() is one behaviour; pc is the      *)
(* position of the control flow inside main().                             *)
(***************************************************************************)
EXTENDS Integers, Sequences, FiniteSets, TLC

\* Largest number of -v flags given on one level of the command line.
MaxCount == 4

\* logging severities (the values of logging.CRITICAL ... logging.DEBUG)
CRITICAL == 50
WARNING == 30
INFO == 20
DEBUG == 10

Levels == {DEBUG, INFO, WARNING, CRITICAL}

\* __status__
status == "development"

Probes == {"mittwald", "uberspace"}

\* What one call of a probe's identify() can do: return a bool or raise.
\* AttributeError is the one exception type main() handles; OSError stands
\* for every other exception type.
Raises == {"AttributeError", "OSError"}
ProbeOutcomes == {"true", "false"} \cup Raises

\* What a probe logs through the logger it was given while identifying:
\* nothing, or one line at some level.
ProbeDiag == {0} \cup Levels

VARIABLES
    pc,             \* position in main()
    argv,           \* the command line given to main()
    dirExists,      \* the log directory exists on disk
    canCreate,      \* the log directory can be created by this process
    makedirsRaised, \* os.makedirs raised (and was caught)
    handlers,       \* the handlers returned by _log_default_handler
    streamLevel,    \* level of stream_handler
    args,           \* the namespace returned by parser.parse_args
    verbosity,      \* main's local verbosity
    calls,          \* the identify() calls made so far, in order
    emitted,        \* every record the logger accepted
    fileLog,        \* records written by the rotating file handler
    consoleLog,     \* records written by stream_handler
    raised          \* the exception that left main(), "none" if none

vars == <<pc, argv, dirExists, canCreate, makedirsRaised, handlers,
          streamLevel, args, verbosity, calls, emitted, fileLog,
          consoleLog, raised>>

\* The command line: options before the subcommand, the subcommand, and
\* the options after it.
Argvs ==
    { [pCount |-> pc0, pSilent |-> ps, cmd |-> "none",
       sCount |-> 0, sSilent |-> FALSE, lookFor |-> ""] :
         pc0 \in 0..MaxCount, ps \in BOOLEAN }
    \cup
    { [pCount |-> pc0, pSilent |-> ps, cmd |-> "identify",
       sCount |-> sc, sSilent |-> ss, lookFor |-> lf] :
         pc0 \in 0..MaxCount, ps \in BOOLEAN,
         sc \in 0..MaxCount, ss \in BOOLEAN,
         lf \in {"", "mittwald", "uberspace"} }

NoArgs == [verbosity |-> 0, silent |-> FALSE, hasLookFor |-> FALSE, look_for |-> ""]

Init ==
    /\ pc = "bootstrap"
    /\ argv \in Argvs
    /\ dirExists \in BOOLEAN
    /\ canCreate \in BOOLEAN
    /\ (dirExists => canCreate)
    /\ makedirsRaised = FALSE
    /\ handlers = <<>>
    /\ streamLevel = 0
    /\ args = NoArgs
    /\ verbosity = 0
    /\ calls = <<>>
    /\ emitted = <<>>
    /\ fileLog = <<>>
    /\ consoleLog = <<>>
    /\ raised = "none"

(***************************************************************************)
(* _log_default_handler                                                    *)
(***************************************************************************)

\* level of the file handler (line 94)
FileLevelInfoOnly == INFO

FileLevel == IF status = "development" THEN DEBUG ELSE INFO

\* os.makedirs(log_dir) raises when the directory exists already and when
\* it cannot be created; both are OSError (= IOError) and are caught.
MakedirsRaises == dirExists \/ ~canCreate

\* TimedRotatingFileHandler opens the log file when it is constructed; the
\* open raises when the directory is not there.
log_default_handler ==
    /\ pc = "bootstrap"
    /\ makedirsRaised' = MakedirsRaises
    /\ dirExists' = (dirExists \/ canCreate)
    /\ IF dirExists'
         THEN /\ handlers' = <<[kind |-> "file", level |-> FileLevel]>>
              /\ pc' = "logging"
              /\ raised' = raised
         ELSE /\ handlers' = handlers
              /\ pc' = "aborted"
              /\ raised' = "FileNotFoundError"
    /\ UNCHANGED <<argv, canCreate, streamLevel, args, verbosity, calls,
                   emitted, fileLog, consoleLog>>

(***************************************************************************)
(* main: logger set-up (lines 138-146)                                     *)
(***************************************************************************)

\* logger.setLevel(logging.DEBUG)
LoggerLevel == DEBUG

SetupLogging ==
    /\ pc = "logging"
    /\ streamLevel' = WARNING
    /\ pc' = "parse"
    /\ UNCHANGED <<argv, dirExists, canCreate, makedirsRaised, handlers, args,
                   verbosity, calls, emitted, fileLog, consoleLog, raised>>

\* Logger.handle: a record the logger accepts goes to stream_handler and,
\* by propagation, to the root logger's file handler; each handler filters
\* by its own level.
Accepted(msgs) == SelectSeq(msgs, LAMBDA m : m.level >= LoggerLevel)

ToFile(msgs) ==
    IF handlers = <<>> THEN <<>>
    ELSE SelectSeq(Accepted(msgs), LAMBDA m : m.level >= handlers[1].level)

ToConsole(msgs) == SelectSeq(Accepted(msgs), LAMBDA m : m.level >= streamLevel)

Log(msgs) ==
    /\ emitted' = emitted \o Accepted(msgs)
    /\ fileLog' = fileLog \o ToFile(msgs)
    /\ consoleLog' = consoleLog \o ToConsole(msgs)

(***************************************************************************)
(* main: argument parsing (lines 149-168)                                  *)
(***************************************************************************)

\* -v and --silent are in one mutually exclusive group, on the main parser
\* and (through parents=[parser]) on the identify parser.
ParseError(a) ==
    \/ a.pCount > 0 /\ a.pSilent
    \/ a.cmd = "identify" /\ a.sCount > 0 /\ a.sSilent

\* The subparser parses into a namespace of its own, which is then copied
\* over the main parser's: with a subcommand the values of the options
\* after it (or their defaults) are the ones main() sees.  look_for exists
\* only when the identify subcommand was given.
Namespace(a) ==
    IF a.cmd = "identify"
      THEN [verbosity |-> a.sCount, silent |-> a.sSilent,
            hasLookFor |-> TRUE, look_for |-> a.lookFor]
      ELSE [verbosity |-> a.pCount, silent |-> a.pSilent,
            hasLookFor |-> FALSE, look_for |-> ""]

ParseArgs ==
    /\ pc = "parse"
    /\ IF ParseError(argv)
         THEN /\ pc' = "aborted"
              /\ raised' = "SystemExit"
              /\ args' = args
         ELSE /\ pc' = "verbosity"
              /\ raised' = raised
              /\ args' = Namespace(argv)
    /\ UNCHANGED <<argv, dirExists, canCreate, makedirsRaised, handlers,
                   streamLevel, verbosity, calls, emitted, fileLog, consoleLog>>

(***************************************************************************)
(* main: verbosity (lines 170-182)                                         *)
(***************************************************************************)

Min(a, b) == IF a < b THEN a ELSE b
Max(a, b) == IF a > b THEN a ELSE b

\* verbosity = max(0, min(3, args.verbosity)); if args.silent: verbosity = -1
ResolveVerbosity(count, silent) ==
    IF silent THEN -1 ELSE Max(0, Min(3, count))

logging_level_Shifted(v) ==
    CASE v = -1 -> CRITICAL
      [] v = 0 -> WARNING
      [] v = 1 -> INFO
      [] v = 2 -> DEBUG
      [] v = 3 -> DEBUG
      [] OTHER -> WARNING

\* the dict lookup with its .get default
logging_level(v) ==
    CASE v = -1 -> CRITICAL
      [] v = 0 -> WARNING
      [] v = 1 -> INFO
      [] v = 2 -> INFO
      [] v = 3 -> DEBUG
      [] OTHER -> WARNING

HandleVerbosity ==
    /\ pc = "verbosity"
    /\ verbosity' = ResolveVerbosity(args.verbosity, args.silent)
    /\ streamLevel' = logging_level(verbosity')
    /\ pc' = "start"
    /\ UNCHANGED <<argv, dirExists, canCreate, makedirsRaised, handlers, args,
                   calls, emitted, fileLog, consoleLog, raised>>

(***************************************************************************)
(* main: start of the application (lines 185-193)                          *)
(***************************************************************************)

StartMessages ==
    << [msg |-> "started", level |-> DEBUG],
       [msg |-> "Save logs to", level |-> DEBUG],
       [msg |-> "Load configurations from", level |-> DEBUG],
       [msg |-> "Verbosity Level at", level |-> DEBUG] >>

StartApplication ==
    /\ pc = "start"
    /\ Log(StartMessages)
    /\ pc' = "dispatch"
    /\ UNCHANGED <<argv, dirExists, canCreate, makedirsRaised, handlers,
                   streamLevel, args, verbosity, calls, raised>>

(***************************************************************************)
(* main: identification (lines 196-206)                                    *)
(***************************************************************************)

UnknownPlatformMsg == [msg |-> "unknown platform", level |-> INFO]

DiagMsgs(p, d) == IF d = 0 THEN <<>> ELSE <<[msg |-> p, level |-> d]>>

CallRec(p, o, ph) == [probe |-> p, outcome |-> o, phase |-> ph]

\* Where main() continues after the probe named by --look-for was called
\* inside the try block: a returned value is discarded, AttributeError
\* enters the except block, anything else leaves main().
TargetedNextFallsThroughOnFalse(o) ==
    CASE o = "true" -> "final"
      [] o \in {"false", "AttributeError"} -> "default_mw"
      [] OTHER -> "aborted"

TargetedNext(o) ==
    CASE o \in {"true", "false"} -> "final"
      [] o = "AttributeError" -> "default_mw"
      [] OTHER -> "aborted"

\* try: args.look_for without the identify subcommand raises AttributeError
MissingLookFor ==
    /\ pc = "dispatch"
    /\ ~args.hasLookFor
    /\ pc' = "default_mw"
    /\ UNCHANGED <<argv, dirExists, canCreate, makedirsRaised, handlers,
                   streamLevel, args, verbosity, calls, emitted, fileLog,
                   consoleLog, raised>>

\* try: look_for is '' (the default), neither comparison holds
NoTarget ==
    /\ pc = "dispatch"
    /\ args.hasLookFor
    /\ args.look_for \notin Probes
    /\ pc' = "final"
    /\ UNCHANGED <<argv, dirExists, canCreate, makedirsRaised, handlers,
                   streamLevel, args, verbosity, calls, emitted, fileLog,
                   consoleLog, raised>>

\* try: look_for names a probe, its identify() is called
Targeted ==
    /\ pc = "dispatch"
    /\ args.hasLookFor
    /\ args.look_for \in Probes
    /\ \E o \in ProbeOutcomes, d \in ProbeDiag :
         /\ calls' = Append(calls, CallRec(args.look_for, o, "targeted"))
         /\ Log(DiagMsgs(args.look_for, d))
         /\ pc' = TargetedNext(o)
         /\ raised' = IF pc' = "aborted" THEN o ELSE raised
    /\ UNCHANGED <<argv, dirExists, canCreate, makedirsRaised, handlers,
                   streamLevel, args, verbosity>>

\* except AttributeError: `not mw.identify() and ...`; nothing catches an
\* exception raised inside the except block.
DefaultMwNextNoShortCircuit(o) ==
    CASE o \in {"true", "false"} -> "default_uberspace"
      [] OTHER -> "aborted"

DefaultMwNext(o) ==
    CASE o = "true" -> "final"
      [] o = "false" -> "default_uberspace"
      [] OTHER -> "aborted"

DefaultMw ==
    /\ pc = "default_mw"
    /\ \E o \in ProbeOutcomes, d \in ProbeDiag :
         /\ calls' = Append(calls, CallRec("mittwald", o, "untargeted"))
         /\ Log(DiagMsgs("mittwald", d))
         /\ pc' = DefaultMwNext(o)
         /\ raised' = IF pc' = "aborted" THEN o ELSE raised
    /\ UNCHANGED <<argv, dirExists, canCreate, makedirsRaised, handlers,
                   streamLevel, args, verbosity>>

\* `... and not uberspace.identify()`: logger.info(_("unknown platform"))
UnknownPlatformWarning(o) ==
    IF o = "false" THEN <<[msg |-> "unknown platform", level |-> WARNING]>> ELSE <<>>

UnknownPlatformAlways(o) ==
    IF o \in {"true", "false"} THEN <<UnknownPlatformMsg>> ELSE <<>>

UnknownPlatform(o) == IF o = "false" THEN <<UnknownPlatformMsg>> ELSE <<>>

DefaultUberspace ==
    /\ pc = "default_uberspace"
    /\ \E o \in ProbeOutcomes, d \in ProbeDiag :
         /\ calls' = Append(calls, CallRec("uberspace", o, "untargeted"))
         /\ Log(DiagMsgs("uberspace", d) \o UnknownPlatform(o))
         /\ pc' = IF o \in Raises THEN "aborted" ELSE "final"
         /\ raised' = IF o \in Raises THEN o ELSE raised
    /\ UNCHANGED <<argv, dirExists, canCreate, makedirsRaised, handlers,
                   streamLevel, args, verbosity>>

\* logger.debug("-" * 80), then main() returns
FinalLine ==
    /\ pc = "final"
    /\ Log(<<[msg |-> "dashes", level |-> DEBUG]>>)
    /\ pc' = "done"
    /\ UNCHANGED <<argv, dirExists, canCreate, makedirsRaised, handlers,
                   streamLevel, args, verbosity, calls, raised>>

Next ==
    \/ log_default_handler
    \/ SetupLogging
    \/ ParseArgs
    \/ HandleVerbosity
    \/ StartApplication
    \/ MissingLookFor
    \/ NoTarget
    \/ Targeted
    \/ DefaultMw
    \/ DefaultUberspace
    \/ FinalLine

Spec == Init /\ [][Next]_vars

(***************************************************************************)
(* Properties                                                              *)
(***************************************************************************)

\* C1: when main is run with the identify subcommand and --look-for is
\* omitted, the untargeted dispatch runs: mittwald is probed first,
\* uberspace is probed iff mittwald returned false, and "unknown platform"
\* is logged when both returned false.
C1_IdentifyWithoutLookForRunsUntargeted ==
    (pc = "done" /\ argv.cmd = "identify" /\ argv.lookFor = "") =>
        /\ Len(calls) >= 1
        /\ calls[1].probe = "mittwald"
        /\ (calls[1].outcome = "true" => Len(calls) = 1)
        /\ (calls[1].outcome = "false" =>
               /\ Len(calls) = 2
               /\ calls[2].probe = "uberspace"
               /\ (calls[2].outcome = "false" =>
                      \E k \in DOMAIN emitted : emitted[k] = UnknownPlatformMsg))

\* C2: in the untargeted iteration, once mittwald's identify() has returned
\* true no further probe is invoked in that run: that call stays the last.
C2_FirstMatchWins ==
    \A i \in DOMAIN calls :
        (calls[i] = CallRec("mittwald", "true", "untargeted")) =>
            /\ i = Len(calls)
            /\ \A j \in DOMAIN calls :
                 ~(calls[j].probe = "uberspace" /\ calls[j].phase = "untargeted")

C2_Witness ==
    /\ pc = "done"
    /\ calls = <<CallRec("mittwald", "true", "untargeted")>>

\* C3: when a run ends after an untargeted iteration in which both probes
\* returned false, the iteration invoked each probe exactly once (and a run
\* that was untargeted from the start made no other call), and exactly one
\* "unknown platform" record was logged, at INFO level.
C3_BothFalseOnceEachOneUnknown ==
    (/\ pc = "done"
     /\ \E i \in DOMAIN calls : calls[i] = CallRec("mittwald", "false", "untargeted")
     /\ \E i \in DOMAIN calls : calls[i] = CallRec("uberspace", "false", "untargeted"))
    =>
        /\ \A p \in Probes :
             Cardinality({i \in DOMAIN calls :
                            calls[i].probe = p /\ calls[i].phase = "untargeted"}) = 1
        /\ (~args.hasLookFor => Len(calls) = 2)
        /\ Cardinality({k \in DOMAIN emitted :
                          emitted[k].msg = "unknown platform"}) = 1
        /\ \A k \in DOMAIN emitted :
             emitted[k].msg = "unknown platform" => emitted[k].level = INFO

C3_Witness ==
    /\ pc = "done"
    /\ calls = <<CallRec("mittwald", "false", "untargeted"),
                 CallRec("uberspace", "false", "untargeted")>>
    /\ \E k \in DOMAIN emitted : emitted[k] = UnknownPlatformMsg

\* C4: with --look-for naming a provider, the first probe invoked is that
\* provider's, and whatever it returns (true or false) it is the only call
\* of the run: the other provider's identify() is never invoked.
C4_TargetedInvokesOnlySelected ==
    \A p \in Probes :
        (args.hasLookFor /\ args.look_for = p /\ calls # <<>>) =>
            /\ calls[1].probe = p
            /\ calls[1].phase = "targeted"
            /\ (calls[1].outcome \in {"true", "false"} =>
                   /\ Len(calls) = 1
                   /\ \A i \in DOMAIN calls : calls[i].probe = p)

C4_Witness ==
    /\ pc = "done"
    /\ args.look_for = "mittwald"
    /\ calls = <<CallRec("mittwald", "false", "targeted")>>

\* C5: a probe whose identify() raises during the untargeted iteration is
\* treated as non-matching; the exception never leaves main().
C5_UntargetedFailureAbsorbed ==
    \A i \in DOMAIN calls :
        (calls[i].phase = "untargeted" /\ calls[i].outcome \in Raises) =>
            /\ pc # "aborted"
            /\ raised = "none"

\* C6: whatever the probe named by --look-for raises, the failure is caught
\* and the untargeted iteration is entered, starting with mittwald.
C6_TargetedFailureFallsThrough ==
    (/\ calls # <<>>
     /\ calls[1].phase = "targeted"
     /\ calls[1].outcome \in Raises)
    =>
        /\ raised # calls[1].outcome \/ Len(calls) >= 2
        /\ \/ pc = "default_mw"
           \/ /\ Len(calls) >= 2
              /\ calls[2].probe = "mittwald"
              /\ calls[2].phase = "untargeted"

\* C7: once the arguments are resolved, the console threshold is CRITICAL
\* if silent is set, whatever the count, and otherwise the table entry of
\* the count clamped to [0,3] (0 WARNING, 1 and 2 INFO, 3 DEBUG); the same
\* holds of the resolution applied to every count and every silent value.
C7_ConsoleThreshold ==
    /\ (pc \in {"start", "dispatch", "default_mw", "default_uberspace",
                "final", "done"}) =>
          streamLevel =
            IF args.silent THEN 50
            ELSE CASE args.verbosity <= 0 -> 30
                   [] args.verbosity \in {1, 2} -> 20
                   [] args.verbosity >= 3 -> 10
    /\ \A c \in 0..MaxCount, sl \in BOOLEAN :
          logging_level(ResolveVerbosity(c, sl)) =
            IF sl THEN 50
            ELSE CASE c <= 0 -> 30
                   [] c \in {1, 2} -> 20
                   [] c >= 3 -> 10

C7_Witness ==
    /\ pc = "done"
    /\ args.verbosity > 3
    /\ streamLevel = DEBUG

\* C8: when creating the log directory fails, the failure is swallowed and
\* the bootstrap still completes: no exception of the bootstrap leaves main().
C8_MakedirsFailureNonFatal ==
    makedirsRaised => (pc # "aborted" \/ raised # "FileNotFoundError")

\* C9: a logged record reaches the file iff its level is at or above the
\* file threshold (DEBUG in development status, INFO otherwise), whatever
\* the verbosity, and reaches the console iff its level is at or above the
\* verbosity-mapped threshold; with --silent and both probes returning
\* false the file holds "unknown platform" at INFO exactly once and the
\* console holds nothing below CRITICAL.
C9_SinkThresholds ==
    /\ fileLog = SelectSeq(emitted, LAMBDA m :
                   m.level >= (IF status = "development" THEN 10 ELSE 20))
    /\ consoleLog = SelectSeq(emitted, LAMBDA m :
                   m.level >= logging_level(ResolveVerbosity(args.verbosity, args.silent)))
    /\ (/\ pc = "done"
        /\ args.silent
        /\ \E i \in DOMAIN calls : calls[i] = CallRec("mittwald", "false", "untargeted")
        /\ \E i \in DOMAIN calls : calls[i] = CallRec("uberspace", "false", "untargeted"))
       =>
          /\ Cardinality({k \in DOMAIN fileLog : fileLog[k] = UnknownPlatformMsg}) = 1
          /\ \A k \in DOMAIN consoleLog : consoleLog[k].level >= 50

C9_Witness ==
    /\ pc = "done"
    /\ args.silent
    /\ calls = <<CallRec("mittwald", "false", "untargeted"),
                 CallRec("uberspace", "false", "untargeted")>>
    /\ \E k \in DOMAIN fileLog : fileLog[k] = UnknownPlatformMsg
    /\ \E k \in DOMAIN fileLog : fileLog[k].level = DEBUG
    /\ \A k \in DOMAIN consoleLog : consoleLog[k].level = CRITICAL

\* C10: "unknown platform" is logged only right after the untargeted
\* iteration has invoked mittwald and then uberspace and both returned
\* false; a targeted run whose probe returns false makes no further call,
\* logs no "unknown platform" and ends normally.
C10_UnknownOnlyAfterBothFalse ==
    /\ (\E k \in DOMAIN emitted : emitted[k].msg = "unknown platform") =>
          /\ Len(calls) >= 2
          /\ calls[Len(calls) - 1] = CallRec("mittwald", "false", "untargeted")
          /\ calls[Len(calls)] = CallRec("uberspace", "false", "untargeted")
    /\ \A p \in Probes :
          (calls # <<>> /\ calls[1] = CallRec(p, "false", "targeted")) =>
              /\ Len(calls) = 1
              /\ pc \in {"final", "done"}
              /\ raised = "none"
              /\ \A k \in DOMAIN emitted : emitted[k].msg # "unknown platform"

C10_Witness ==
    /\ pc = "done"
    /\ args.look_for = "uberspace"
    /\ calls = <<CallRec("uberspace", "false", "targeted")>>
    /\ \A k \in DOMAIN emitted : emitted[k].msg # "unknown platform"

====
